---- MODULE Spec2Model ----
(***************************************************************************)
(* Coup-AI: the Coup game-state machine (CoupState in game.py) and the      *)
(* ISMCTS search that drives it.                                            *)
(*                                                                          *)
(* A CoupState object is modelled as a record with the fields of the Python *)
(* object.  Python's None is "None" for the string registers and NoPlayer   *)
(* for the player registers.  A Python exception that escapes a method is    *)
(* recorded in the field err ("" when no exception was raised).             *)
(***************************************************************************)
EXTENDS Integers, Sequences, FiniteSets, TLC

\* CoupState(2), the game the program itself plays (playCoup)
NumPlayers == 2

Roles == {"Ambassador", "Assassin", "Captain", "Contessa", "Duke"}

\* GetCardDeck: ["Ambassador", "Assassin", "Captain", "Contessa", "Duke"] * 3
RoleList == <<"Ambassador", "Assassin", "Captain", "Contessa", "Duke">>
DeckCopies == 3
GetCardDeck == [i \in 1..(Len(RoleList) * DeckCopies) |-> RoleList[((i - 1) % Len(RoleList)) + 1]]

NoneStr == "None"
NoPlayer == -1

ZeroCount == [r \in Roles |-> 0]

\* number of occurrences of role r in the list h
RECURSIVE CountIn(_, _)
CountIn(h, r) ==
    IF h = <<>> THEN 0
    ELSE (IF Head(h) = r THEN 1 ELSE 0) + CountIn(Tail(h), r)

\* x in list
InList(h, x) == \E i \in 1..Len(h) : h[i] = x

\* list.remove(x): removes the first occurrence of x
RECURSIVE ListRemove(_, _)
ListRemove(h, x) ==
    IF h = <<>> THEN <<>>
    ELSE IF Head(h) = x THEN Tail(h)
    ELSE <<Head(h)>> \o ListRemove(Tail(h), x)


\* the real players of a state: range(1, self.numberOfPlayers)
Players(s) == 1..(s.numberOfPlayers - 1)

(***************************************************************************)
(* Moves.  The Python code mixes strings ("Duke", "Allow", "2") and tuples  *)
(* of role names (the ambassador's new hand); a move is a record that keeps *)
(* the two apart: Str("Duke") is never equal to Tup(<<"Duke">>).            *)
(***************************************************************************)
Str(x) == [k |-> "str", v |-> <<x>>]
Tup(h) == [k |-> "tuple", v |-> h]
IsStr(m) == m.k = "str"
StrOf(m) == m.v[1]

\* str(i) for a player number i
Digits == <<"1", "2", "3", "4", "5", "6">>
PlayerStr(i) == Digits[i]
\* int(move): the player number written by a digit string, NoPlayer when
\* int() raises ValueError
IntOf(x) == IF \E i \in 1..Len(Digits) : Digits[i] = x
            THEN CHOOSE i \in 1..Len(Digits) : Digits[i] = x
            ELSE NoPlayer

\* the static tables of DoMove / GetMoves
ActionNames == {"Ambassador", "Assassin", "Captain", "Contessa", "Coup", "Duke", "Income", "Foreign Aid"}
blocks == [a \in ActionNames |->
             CASE a = "Assassin" -> <<"Contessa">>
               [] a = "Captain" -> <<"Ambassador", "Captain">>
               [] a = "Foreign Aid" -> <<"Duke">>
               [] OTHER -> <<>>]
challengable == [a \in ActionNames |-> a \notin {"Coup", "Income", "Foreign Aid"}]
targetted == [a \in ActionNames |-> a \in {"Assassin", "Captain", "Contessa", "Coup"}]

\* a state in which an exception has escaped
Raise(s, e) == [s EXCEPT !.err = e]

(***************************************************************************)
(* GetNextPlayer: the player to the left of p, skipping knocked-out players *)
(***************************************************************************)
RECURSIVE SkipKnockedOut(_, _, _)
SkipKnockedOut(s, p, next) ==
    IF next # p /\ s.knockedOut[next]
    THEN SkipKnockedOut(s, p, (next % (s.numberOfPlayers - 1)) + 1)
    ELSE next

\* GetNextPlayer without the while loop
GetNextPlayer_NoSkip(s, p) == (p % (s.numberOfPlayers - 1)) + 1

GetNextPlayer(s, p) == SkipKnockedOut(s, p, (p % (s.numberOfPlayers - 1)) + 1)

\* ResetAction without self.challenger = None
ResetAction_KeepsChallenger(s) ==
    [s EXCEPT !.currentAction = NoneStr,
              !.currentActionPlayer = NoPlayer,
              !.currentActionTarget = NoPlayer,
              !.currentBlock = NoneStr,
              !.currentBlockPlayer = NoPlayer]

ResetAction(s) ==
    [s EXCEPT !.currentAction = NoneStr,
              !.currentActionPlayer = NoPlayer,
              !.currentActionTarget = NoPlayer,
              !.currentBlock = NoneStr,
              !.currentBlockPlayer = NoPlayer,
              !.challenger = NoPlayer]

(***************************************************************************)
(* Deck accounting.                                                         *)
(*   for card in deckCards:                                                 *)
(*       if cardCount.get(card, 0) > 0:                                     *)
(*           deckCards.remove(card); cardCount[card] -= 1                   *)
(* The list is mutated while it is iterated: the iterator keeps an index,   *)
(* remove() deletes the first occurrence of the card, and the element that  *)
(* slides into the current index is skipped.  RemoveSeen returns the list   *)
(* and the counts as the loop leaves them.                                  *)
(***************************************************************************)
RECURSIVE RemoveSeen(_, _, _)
RemoveSeen(deck, i, cnt) ==
    IF i > Len(deck) THEN [deck |-> deck, cnt |-> cnt]
    ELSE LET card == deck[i] IN
         IF cnt[card] > 0
         THEN RemoveSeen(ListRemove(deck, card), i + 1, [cnt EXCEPT ![card] = @ - 1])
         ELSE RemoveSeen(deck, i + 1, cnt)

\* the set of elements of a list
SeqSet(h) == {h[i] : i \in 1..Len(h)}

(***************************************************************************)
(* random.shuffle.  The arrangements explored are those that group the      *)
(* cards by role, in one of the first MaxShuffles role orders below: each   *)
(* is an arrangement a shuffle of the list can produce, whatever the list   *)
(* holds.                                                                   *)
(***************************************************************************)
MaxShuffles == 2

ShuffleOrders ==
    << <<"Ambassador", "Assassin", "Captain", "Contessa", "Duke">>,
       <<"Duke", "Contessa", "Captain", "Assassin", "Ambassador">>,
       <<"Captain", "Duke", "Ambassador", "Contessa", "Assassin">>,
       <<"Contessa", "Ambassador", "Duke", "Assassin", "Captain">>,
       <<"Assassin", "Captain", "Contessa", "Duke", "Ambassador">> >>

\* the cards of the list grouped by role, roles in the given order
RECURSIVE GroupByRole(_, _)
GroupByRole(cards, order) ==
    IF order = <<>> THEN <<>>
    ELSE SelectSeq(cards, LAMBDA c : c = Head(order)) \o GroupByRole(cards, Tail(order))

Shuffles(cards) ==
    {GroupByRole(cards, ShuffleOrders[((k - 1) % Len(ShuffleOrders)) + 1]) : k \in 1..MaxShuffles}

\* a slice cards[a:b] (0-based, end excluded), short when the list is short
Slice(cards, a, b) == SubSeq(cards, a + 1, IF b < Len(cards) THEN b ELSE Len(cards))

\* the cards of the hands of all players, counted on top of cnt
HandCount(s, cnt) ==
    LET RECURSIVE Upto(_)
        Upto(p) == IF p = 0 THEN cnt
                   ELSE [r \in Roles |-> Upto(p - 1)[r] + CountIn(s.playerHands[p], r)]
    IN Upto(s.numberOfPlayers - 1)

(***************************************************************************)
(* DealFromDeck(n).  cardCount IS self.revealedCards (no copy is made), so  *)
(* the counting and the removal loop both write into the revealed pile of   *)
(* the state.  The result is the set of (state after the call, cards dealt) *)
(***************************************************************************)
DealFromDeck(s, n) ==
    LET cardCount == HandCount(s, s.revealedCards)
        left == RemoveSeen(GetCardDeck, 1, cardCount)
        after == [s EXCEPT !.revealedCards = left.cnt]
    IN {[st |-> after, cards |-> Slice(sh, 0, n)] : sh \in Shuffles(left.deck)}

(***************************************************************************)
(* The action methods.  Each takes the state and returns the set of states  *)
(* the call can leave (one state unless cards are dealt).                   *)
(***************************************************************************)
Income(s) ==
    LET a == s.currentActionPlayer
        t == [s EXCEPT !.coins[a] = @ + 1] IN
    {ResetAction([t EXCEPT !.playerToMove = GetNextPlayer(t, a)])}

ForeignAid(s) ==
    LET a == s.currentActionPlayer
        t == [s EXCEPT !.coins[a] = @ + 2] IN
    {ResetAction([t EXCEPT !.playerToMove = GetNextPlayer(t, a)])}

Coup(s) ==
    {[s EXCEPT !.coins[s.currentActionPlayer] = @ - 7,
               !.playerToMove = s.currentActionTarget,
               !.revealingInfluence = TRUE]}

Ambassador(s) ==
    {[d.st EXCEPT !.ambassadorCards = d.cards] : d \in DealFromDeck(s, 2)}

\* Assassin without the test of knockedOut[target]
Assassin_NoKnockedOutCheck(s) ==
    {[s EXCEPT !.playerToMove = s.currentActionTarget,
               !.revealingInfluence = TRUE]}

\* Assassin ending the turn whether the target is knocked out or not
Assassin_NeverReveals(s) ==
    {ResetAction([s EXCEPT !.playerToMove = GetNextPlayer(s, s.currentActionPlayer)])}

Assassin(s) ==
    IF ~s.knockedOut[s.currentActionTarget]
    THEN {[s EXCEPT !.playerToMove = s.currentActionTarget,
                    !.revealingInfluence = TRUE]}
    \* the target lost their last card blocking or challenging the assassination
    ELSE {ResetAction([s EXCEPT !.playerToMove = GetNextPlayer(s, s.currentActionPlayer)])}

MinOf(a, b) == IF a < b THEN a ELSE b

\* Captain with stolenCoins = 2
Captain_StealsTwo(s) ==
    LET a == s.currentActionPlayer
        tg == s.currentActionTarget
        t1 == [s EXCEPT !.coins[tg] = @ - 2]
        t2 == [t1 EXCEPT !.coins[a] = @ + 2] IN
    {ResetAction([t2 EXCEPT !.playerToMove = GetNextPlayer(t2, a)])}

Captain(s) ==
    LET a == s.currentActionPlayer
        tg == s.currentActionTarget
        stolenCoins == MinOf(2, s.coins[tg])
        t1 == [s EXCEPT !.coins[tg] = @ - stolenCoins]
        t2 == [t1 EXCEPT !.coins[a] = @ + stolenCoins] IN
    {ResetAction([t2 EXCEPT !.playerToMove = GetNextPlayer(t2, a)])}

Duke(s) ==
    LET a == s.currentActionPlayer
        t == [s EXCEPT !.coins[a] = @ + 3] IN
    {ResetAction([t EXCEPT !.playerToMove = GetNextPlayer(t, a)])}

\* SwapCard without the card dealt from the deck
SwapCard_NoDraw(s, p, card) ==
    {[s EXCEPT !.playerHands[p] = ListRemove(@, card)]}

\* the claimant p holds the claimed card: p discards it and draws another
SwapCard(s, p, card) ==
    LET t == [s EXCEPT !.playerHands[p] = ListRemove(@, card)] IN
    {[d.st EXCEPT !.playerHands[p] = @ \o d.cards] : d \in DealFromDeck(t, 1)}

\* ResolveChallenge asking the challenger to reveal whoever bluffed
ResolveChallenge_ChallengerReveals(s) ==
    IF s.currentBlock # NoneStr
    THEN LET bp == s.currentBlockPlayer
             S1 == IF InList(s.playerHands[bp], s.currentBlock)
                   THEN SwapCard([s EXCEPT !.playerToMove = s.challenger], bp, s.currentBlock)
                   ELSE {[s EXCEPT !.playerToMove = s.challenger]}
         IN {[t EXCEPT !.challengingPhase = FALSE, !.revealingInfluence = TRUE] : t \in S1}
    ELSE IF s.currentAction # NoneStr
    THEN LET ap == s.currentActionPlayer
             t0 == [s EXCEPT !.challengingPhase = FALSE, !.revealingInfluence = TRUE]
         IN IF InList(t0.playerHands[ap], t0.currentAction)
            THEN SwapCard([t0 EXCEPT !.playerToMove = t0.challenger], ap, t0.currentAction)
            ELSE {[t0 EXCEPT !.playerToMove = t0.challenger]}
    ELSE {s}

ResolveChallenge(s) ==
    IF s.currentBlock # NoneStr
    THEN LET bp == s.currentBlockPlayer
             S1 == IF InList(s.playerHands[bp], s.currentBlock)
                   \* the blocker is not bluffing: the challenger loses influence
                   THEN SwapCard([s EXCEPT !.playerToMove = s.challenger], bp, s.currentBlock)
                   ELSE {[s EXCEPT !.playerToMove = bp]}
         IN {[t EXCEPT !.challengingPhase = FALSE, !.revealingInfluence = TRUE] : t \in S1}
    ELSE IF s.currentAction # NoneStr
    THEN LET ap == s.currentActionPlayer
             t0 == [s EXCEPT !.challengingPhase = FALSE, !.revealingInfluence = TRUE]
         IN IF InList(t0.playerHands[ap], t0.currentAction)
            THEN SwapCard([t0 EXCEPT !.playerToMove = t0.challenger], ap, t0.currentAction)
            ELSE {[t0 EXCEPT !.playerToMove = ap]}
    ELSE {s}

\* the environment player resolves the challenge
Challenge(s) ==
    {[s EXCEPT !.challenger = s.playerToMove,
               !.challengingPhase = FALSE,
               !.playerToMove = 0]}

RECURSIVE EnactAction(_, _)

\* Allow without the step over the actor of a targeted action
Allow_AsksActor(s) ==
    LET t0 == [s EXCEPT !.playerToMove = GetNextPlayer(s, s.playerToMove)] IN
    IF t0.currentBlock # NoneStr
    THEN LET t1 == IF t0.playerToMove = t0.currentBlockPlayer
                   THEN [t0 EXCEPT !.playerToMove = GetNextPlayer(t0, t0.playerToMove)]
                   ELSE t0
         IN IF t1.playerToMove = t1.currentActionPlayer
            THEN {ResetAction([t1 EXCEPT !.playerToMove = GetNextPlayer(t1, t1.currentActionPlayer)])}
            ELSE {t1}
    ELSE IF t0.challengingPhase
    THEN IF t0.currentActionTarget # NoPlayer
         THEN IF t0.playerToMove = t0.currentActionTarget
              THEN EnactAction([t0 EXCEPT !.challengingPhase = FALSE], t0.currentAction)
              ELSE {t0}
         ELSE IF t0.playerToMove = t0.currentActionPlayer
              THEN EnactAction([t0 EXCEPT !.challengingPhase = FALSE], t0.currentAction)
              ELSE {t0}
    ELSE {t0}

\* Allow enacting the action when a block went unchallenged
Allow_BlockIgnored(s) ==
    LET t0 == [s EXCEPT !.playerToMove = GetNextPlayer(s, s.playerToMove)] IN
    IF t0.currentBlock # NoneStr
    THEN LET t1 == IF t0.playerToMove = t0.currentBlockPlayer
                   THEN [t0 EXCEPT !.playerToMove = GetNextPlayer(t0, t0.playerToMove)]
                   ELSE t0
         IN IF t1.playerToMove = t1.currentActionPlayer
            THEN EnactAction([t1 EXCEPT !.currentBlock = NoneStr, !.currentBlockPlayer = NoPlayer],
                             t1.currentAction)
            ELSE {t1}
    ELSE IF t0.challengingPhase
    THEN IF t0.currentActionTarget # NoPlayer
         THEN LET t1 == IF t0.playerToMove = t0.currentActionPlayer
                        THEN [t0 EXCEPT !.playerToMove = GetNextPlayer(t0, t0.playerToMove)]
                        ELSE t0
              IN IF t1.playerToMove = t1.currentActionTarget
                 THEN EnactAction([t1 EXCEPT !.challengingPhase = FALSE], t1.currentAction)
                 ELSE {t1}
         ELSE IF t0.playerToMove = t0.currentActionPlayer
              THEN EnactAction([t0 EXCEPT !.challengingPhase = FALSE], t0.currentAction)
              ELSE {t0}
    ELSE {t0}

Allow(s) ==
    LET t0 == [s EXCEPT !.playerToMove = GetNextPlayer(s, s.playerToMove)] IN
    IF t0.currentBlock # NoneStr
    THEN \* challenging a block: skip over the player who blocked
         LET t1 == IF t0.playerToMove = t0.currentBlockPlayer
                   THEN [t0 EXCEPT !.playerToMove = GetNextPlayer(t0, t0.playerToMove)]
                   ELSE t0
         IN IF t1.playerToMove = t1.currentActionPlayer
            \* the block went unchallenged: no action happens
            THEN {ResetAction([t1 EXCEPT !.playerToMove = GetNextPlayer(t1, t1.currentActionPlayer)])}
            ELSE {t1}
    ELSE IF t0.challengingPhase
    THEN IF t0.currentActionTarget # NoPlayer
         THEN LET t1 == IF t0.playerToMove = t0.currentActionPlayer
                        THEN [t0 EXCEPT !.playerToMove = GetNextPlayer(t0, t0.playerToMove)]
                        ELSE t0
              IN IF t1.playerToMove = t1.currentActionTarget
                 THEN EnactAction([t1 EXCEPT !.challengingPhase = FALSE], t1.currentAction)
                 ELSE {t1}
         ELSE IF t0.playerToMove = t0.currentActionPlayer
              THEN EnactAction([t0 EXCEPT !.challengingPhase = FALSE], t0.currentAction)
              ELSE {t0}
    ELSE {t0}

\* switcher.get(action, lambda: print("INVALID MOVE"))()
EnactAction(s, action) ==
    CASE action = "Resolve Challenge" -> ResolveChallenge(s)
      [] action = "Challenge" -> Challenge(s)
      [] action = "Allow" -> Allow(s)
      [] action = "Income" -> Income(s)
      [] action = "Foreign Aid" -> ForeignAid(s)
      [] action = "Coup" -> Coup(s)
      [] action = "Ambassador" -> Ambassador(s)
      [] action = "Assassin" -> Assassin(s)
      [] action = "Captain" -> Captain(s)
      [] action = "Duke" -> Duke(s)
      [] OTHER -> {s}

(***************************************************************************)
(* DoMove(move): the set of states the call can leave.  No branch checks    *)
(* the move against GetMoves().                                             *)
(***************************************************************************)
\* the reveal branch of DoMove without the enactment of an action that was
\* challenged in vain
DoReveal_DropsAction(s, m) ==
    LET p == s.playerToMove IN
    IF ~(IsStr(m) /\ InList(s.playerHands[p], StrOf(m)))
    THEN {Raise(s, "ValueError")}
    ELSE
    LET card == StrOf(m)
        t0 == [s EXCEPT !.playerHands[p] = ListRemove(@, card),
                        !.revealedCards[card] = @ + 1,
                        !.revealingInfluence = FALSE]
        t1 == IF Len(t0.playerHands[p]) <= 0 /\ p \in DOMAIN t0.knockedOut
              THEN [t0 EXCEPT !.knockedOut[p] = TRUE] ELSE t0
    IN IF t1.currentBlock # NoneStr /\ t1.playerToMove = t1.currentBlockPlayer
       THEN EnactAction([t1 EXCEPT !.currentBlock = NoneStr, !.currentBlockPlayer = NoPlayer],
                        t1.currentAction)
       ELSE {ResetAction([t1 EXCEPT !.playerToMove = GetNextPlayer(t1, t1.currentActionPlayer)])}

DoReveal(s, m) ==
    LET p == s.playerToMove IN
    IF ~(IsStr(m) /\ InList(s.playerHands[p], StrOf(m)))
    THEN {Raise(s, "ValueError")}          \* list.remove(x): x not in list
    ELSE
    LET card == StrOf(m)
        t0 == [s EXCEPT !.playerHands[p] = ListRemove(@, card),
                        !.revealedCards[card] = @ + 1,
                        !.revealingInfluence = FALSE]
        t1 == IF Len(t0.playerHands[p]) <= 0 /\ p \in DOMAIN t0.knockedOut
              THEN [t0 EXCEPT !.knockedOut[p] = TRUE] ELSE t0
    IN IF t1.currentBlock # NoneStr /\ t1.playerToMove = t1.currentBlockPlayer
       \* the bluffing player was blocking: the action happens now
       THEN EnactAction([t1 EXCEPT !.currentBlock = NoneStr, !.currentBlockPlayer = NoPlayer],
                        t1.currentAction)
       ELSE IF t1.currentBlock = NoneStr /\ t1.currentAction # NoneStr
               /\ t1.currentAction # "Coup" /\ t1.playerToMove = t1.challenger
       \* the player incorrectly challenged the action: enact it now
       THEN EnactAction([t1 EXCEPT !.playerToMove = t1.currentActionPlayer], t1.currentAction)
       ELSE {ResetAction([t1 EXCEPT !.playerToMove = GetNextPlayer(t1, t1.currentActionPlayer)])}

\* DoMove's target branch without self.choosingTarget = False
DoChooseTarget_KeepsFlag(s, m) ==
    IF ~(IsStr(m) /\ IntOf(StrOf(m)) # NoPlayer)
    THEN {Raise(s, "ValueError")}
    ELSE
    LET t0 == [s EXCEPT !.currentActionTarget = IntOf(StrOf(m))]
    IN IF t0.currentAction = "Coup"
       THEN EnactAction(t0, t0.currentAction)
       ELSE {[t0 EXCEPT !.playerToMove = t0.currentActionTarget,
                        !.challengingPhase = TRUE]}

DoChooseTarget(s, m) ==
    IF ~(IsStr(m) /\ IntOf(StrOf(m)) # NoPlayer)
    THEN {Raise(s, "ValueError")}          \* int(move)
    ELSE
    LET t0 == [s EXCEPT !.currentActionTarget = IntOf(StrOf(m)),
                        !.choosingTarget = FALSE]
    IN IF t0.currentAction = "Coup"
       THEN EnactAction(t0, t0.currentAction)
       ELSE {[t0 EXCEPT !.playerToMove = t0.currentActionTarget,
                        !.challengingPhase = TRUE]}

\* self.playerHands[actor] = list(move)
DoNewHand(s, m) ==
    LET a == s.currentActionPlayer
        t0 == [s EXCEPT !.playerHands[a] = m.v,
                        !.ambassadorCards = <<>>]
    IN {ResetAction([t0 EXCEPT !.playerToMove = GetNextPlayer(t0, a)])}

\* the opening branch of DoMove without the payment for the Assassin
DoOpenAction_Unpaid(s, m) ==
    LET move == StrOf(m)
        t1 == [s EXCEPT !.currentAction = move,
                        !.currentActionPlayer = s.playerToMove]
    IN IF move \notin ActionNames THEN {Raise(t1, "KeyError")}
       ELSE IF targetted[move] THEN {[t1 EXCEPT !.choosingTarget = TRUE]}
       ELSE IF challengable[move] \/ blocks[move] # <<>>
       THEN {[t1 EXCEPT !.challengingPhase = TRUE,
                        !.playerToMove = GetNextPlayer(t1, t1.playerToMove)]}
       ELSE EnactAction(t1, move)

DoOpenAction(s, m) ==
    LET move == StrOf(m)
        t0 == [s EXCEPT !.currentAction = move,
                        !.currentActionPlayer = s.playerToMove]
        \* the coins are paid even if the assassination is blocked
        t1 == IF move = "Assassin" THEN [t0 EXCEPT !.coins[t0.currentActionPlayer] = @ - 3] ELSE t0
    IN IF move \notin ActionNames THEN {Raise(t1, "KeyError")}     \* targetted[move]
       ELSE IF targetted[move] THEN {[t1 EXCEPT !.choosingTarget = TRUE]}
       ELSE IF challengable[move] \/ blocks[move] # <<>>
       THEN {[t1 EXCEPT !.challengingPhase = TRUE,
                        !.playerToMove = GetNextPlayer(t1, t1.playerToMove)]}
       ELSE EnactAction(t1, move)

\* DoMove's block branch handing the move to the target of the action
DoBlock_ToTarget(s, m) ==
    {[s EXCEPT !.challengingPhase = FALSE,
               !.currentBlock = StrOf(m),
               !.currentBlockPlayer = s.playerToMove,
               !.playerToMove = s.currentActionTarget]}

DoBlock(s, m) ==
    {[s EXCEPT !.challengingPhase = FALSE,
               !.currentBlock = StrOf(m),
               !.currentBlockPlayer = s.playerToMove,
               !.playerToMove = s.currentActionPlayer]}

DoMove(s, m) ==
    IF s.revealingInfluence THEN DoReveal(s, m)
    ELSE IF s.choosingTarget THEN DoChooseTarget(s, m)
    ELSE IF s.ambassadorCards # <<>> THEN DoNewHand(s, m)
    ELSE IF s.currentAction = NoneStr THEN DoOpenAction(s, m)
    ELSE IF s.challengingPhase /\ m \notin {Str("Allow"), Str("Challenge")} THEN DoBlock(s, m)
    ELSE EnactAction(s, StrOf(m))

(***************************************************************************)
(* GetMoves(): the legal moves, as a set (the code returns a list; only     *)
(* membership and emptiness of the list are ever used).                     *)
(***************************************************************************)
\* itertools.combinations(cards, k): the tuples of k cards at increasing positions
Combinations(cards, k) ==
    LET Picks == {f \in [1..k -> 1..Len(cards)] : \A a, b \in 1..k : a < b => f[a] < f[b]}
    IN {[j \in 1..k |-> cards[f[j]]] : f \in Picks}

\* GetMoves without the filters on the revealed pile
GetMoves_Unfiltered(s) ==
    \* all opponents are knocked out: no moves
    IF \A i \in Players(s) : i # s.playerToMove => s.knockedOut[i] THEN {}
    \* player 0 is the environment player
    ELSE IF s.playerToMove = 0 THEN {Str("Resolve Challenge")}
    ELSE IF s.revealingInfluence THEN {Str(c) : c \in SeqSet(s.playerHands[s.playerToMove])}
    ELSE IF s.choosingTarget
    THEN {Str(PlayerStr(i)) : i \in {j \in Players(s) : j # s.playerToMove /\ ~s.knockedOut[j]}}
    ELSE IF s.currentBlock # NoneStr THEN {Str("Allow"), Str("Challenge")}
    ELSE IF s.challengingPhase
    THEN {Str("Allow")}
         \cup {Str(c) : c \in SeqSet(blocks[s.currentAction])}
         \cup (IF challengable[s.currentAction] THEN {Str("Challenge")} ELSE {})
    ELSE IF s.ambassadorCards # <<>>
    THEN {Tup(h) : h \in Combinations(s.ambassadorCards \o s.playerHands[s.playerToMove],
                                      Len(s.playerHands[s.currentActionPlayer]))}
    \* with 10 or more coins the player must coup
    ELSE IF s.coins[s.playerToMove] >= 10 THEN {Str("Coup")}
    ELSE LET options == {"Income", "Foreign Aid", "Duke", "Captain", "Ambassador"}
                        \cup (IF s.coins[s.playerToMove] >= 3 THEN {"Assassin"} ELSE {})
                        \cup (IF s.coins[s.playerToMove] >= 7 THEN {"Coup"} ELSE {})
         IN {Str(o) : o \in options}

GetMoves(s) ==
    \* all opponents are knocked out: no moves
    IF \A i \in Players(s) : i # s.playerToMove => s.knockedOut[i] THEN {}
    \* player 0 is the environment player
    ELSE IF s.playerToMove = 0 THEN {Str("Resolve Challenge")}
    ELSE IF s.revealingInfluence THEN {Str(c) : c \in SeqSet(s.playerHands[s.playerToMove])}
    ELSE IF s.choosingTarget
    THEN {Str(PlayerStr(i)) : i \in {j \in Players(s) : j # s.playerToMove /\ ~s.knockedOut[j]}}
    ELSE IF s.currentBlock # NoneStr THEN {Str("Allow"), Str("Challenge")}
    ELSE IF s.challengingPhase
    THEN {Str("Allow")}
         \cup {Str(c) : c \in {b \in SeqSet(blocks[s.currentAction]) : s.revealedCards[b] < 3}}
         \cup (IF challengable[s.currentAction] THEN {Str("Challenge")} ELSE {})
    ELSE IF s.ambassadorCards # <<>>
    THEN {Tup(h) : h \in Combinations(s.ambassadorCards \o s.playerHands[s.playerToMove],
                                      Len(s.playerHands[s.currentActionPlayer]))}
    \* with 10 or more coins the player must coup
    ELSE IF s.coins[s.playerToMove] >= 10 THEN {Str("Coup")}
    ELSE LET options == {"Income", "Foreign Aid", "Duke", "Captain", "Ambassador"}
                        \cup (IF s.coins[s.playerToMove] >= 3 THEN {"Assassin"} ELSE {})
                        \cup (IF s.coins[s.playerToMove] >= 7 THEN {"Coup"} ELSE {})
         IN {Str(o) : o \in {x \in options : x \notin Roles \/ s.revealedCards[x] < 3}}

\* GetResult with the two outcomes exchanged
GetResult_Inverted(s, player) ==
    IF player = 0 THEN 0
    ELSE IF s.knockedOut[player] THEN 1 ELSE 0

\* GetResult(player)
GetResult(s, player) ==
    IF player = 0 THEN 0
    ELSE IF s.knockedOut[player] THEN 0 ELSE 1

(***************************************************************************)
(* Determinization.  Clone() copies every field (deepcopy of the dicts and  *)
(* lists).  The two determinizers return the pair (self after the call,     *)
(* st = the clone returned): seenCount is an alias of a revealedCards dict,  *)
(* and the removal loop decrements the counts of that dict.                 *)
(***************************************************************************)
Clone(self) == self

\* the fields of the clone that are the same object as the field of self: none
\* (playerHands, revealedCards, coins, knockedOut and ambassadorCards are
\* deepcopied, the other fields are immutable values)
SharedFields == {}

\* self, after code holding the clone has left it as st
WriteThrough(self, st) == [f \in DOMAIN self |-> IF f \in SharedFields THEN st[f] ELSE self[f]]

\* for p in range(1, n): if p != observer: st.playerHands[p] = unseenCards[:numCards];
\*                                          unseenCards = unseenCards[numCards:]
\* numCards is the size of p's hand in self; slices past the end are short
RECURSIVE DealUnseen(_, _, _, _, _)
DealUnseen(self, st, unseen, observer, p) ==
    IF p > self.numberOfPlayers - 1 THEN st
    ELSE IF p = observer THEN DealUnseen(self, st, unseen, observer, p + 1)
    ELSE LET numCards == Len(self.playerHands[p])
             k == MinOf(numCards, Len(unseen)) IN
         DealUnseen(self, [st EXCEPT !.playerHands[p] = SubSeq(unseen, 1, k)],
                    SubSeq(unseen, k + 1, Len(unseen)), observer, p + 1)

\* CloneAndRandomize with seenCount = self.revealedCards, as CloneAndSelfDeterminize has it
CloneAndRandomize_Aliased(self, observer) ==
    LET st0 == Clone(self)
        seenCount == [r \in Roles |-> self.revealedCards[r] + CountIn(st0.playerHands[observer], r)]
        left == RemoveSeen(GetCardDeck, 1, seenCount)
        self1 == [self EXCEPT !.revealedCards = left.cnt]
    IN {[self |-> self1, st |-> DealUnseen(self, st0, sh, observer, 1)] : sh \in Shuffles(left.deck)}

CloneAndRandomize(self, observer) ==
    LET st0 == Clone(self)
        \* seenCount = st.revealedCards, plus the observer's hand
        seenCount == [r \in Roles |-> st0.revealedCards[r] + CountIn(st0.playerHands[observer], r)]
        left == RemoveSeen(GetCardDeck, 1, seenCount)
        st1 == [st0 EXCEPT !.revealedCards = left.cnt]
    IN {[self |-> self, st |-> DealUnseen(self, st1, sh, observer, 1)] : sh \in Shuffles(left.deck)}

CloneAndSelfDeterminize(self) ==
    LET st0 == Clone(self)
        \* seenCount = self.revealedCards
        left == RemoveSeen(GetCardDeck, 1, self.revealedCards)
        self1 == [self EXCEPT !.revealedCards = left.cnt]
    IN {[self |-> self1, st |-> DealUnseen(self, st0, sh, NoPlayer, 1)] : sh \in Shuffles(left.deck)}

(***************************************************************************)
(* The search tree.  tree is the list of the nodes in creation order; node  *)
(* 1 is rootnode.  parentNode is the index of the parent (0 for the root),  *)
(* and the childNodes of a node are its children in creation order.         *)
(***************************************************************************)
NoMove == [k |-> "none", v |-> <<>>]

\* Node(move, parent, playerJustMoved)
Node(m, parent, p) ==
    [move |-> m, parentNode |-> parent, wins |-> 0, visits |-> 0, avails |-> 1,
     playerJustMoved |-> p]

RootNode == <<Node(NoMove, 0, NoPlayer)>>

ChildNodes(tree, n) == SelectSeq([i \in 1..Len(tree) |-> i], LAMBDA i : tree[i].parentNode = n)

\* GetUntriedMoves: the legal moves for which the node has no child
GetUntriedMoves(tree, n, legalMoves) ==
    {m \in legalMoves : \A c \in SeqSet(ChildNodes(tree, n)) : tree[c].move # m}

\* UCBSelectChild without the update of the availability counts
UCBSelectChild_NoAvails(tree, n, legalMoves) ==
    LET legalChildren == {c \in SeqSet(ChildNodes(tree, n)) : tree[c].move \in legalMoves}
    IN {[tree |-> tree, s |-> c] : c \in legalChildren}

\* UCBSelectChild: the legal child with the highest UCB score; the avails of
\* every legal child are incremented.  The score is a real number
\* (wins/visits + exploration * sqrt(log(avails)/visits)) and is not computed:
\* any legal child may be the one selected.
UCBSelectChild(tree, n, legalMoves) ==
    LET legalChildren == {c \in SeqSet(ChildNodes(tree, n)) : tree[c].move \in legalMoves}
        bumped == [i \in 1..Len(tree) |->
                      IF i \in legalChildren THEN [tree[i] EXCEPT !.avails = @ + 1] ELSE tree[i]]
    IN {[tree |-> bumped, s |-> c] : c \in legalChildren}

\* AddChild(m, p): the new node is appended to childNodes
AddChild(tree, n, m, p) == Append(tree, Node(m, n, p))

\* Update counting a visit only where it counts the wins
Update_PlayedNodesOnly(tree, n, terminalState) ==
    IF tree[n].playerJustMoved # NoPlayer
    THEN [tree EXCEPT ![n] = [@ EXCEPT !.visits = @ + 1,
                                       !.wins = @ + GetResult(terminalState, tree[n].playerJustMoved)]]
    ELSE tree

\* Update(terminalState)
Update(tree, n, terminalState) ==
    [tree EXCEPT ![n] = [@ EXCEPT !.visits = @ + 1,
                                  !.wins = IF tree[n].playerJustMoved # NoPlayer
                                           THEN @ + GetResult(terminalState, tree[n].playerJustMoved)
                                           ELSE @]]

\* while node != None: node.Update(state); node = node.parentNode
RECURSIVE Backpropagate(_, _, _)
Backpropagate(tree, n, terminalState) ==
    IF n = 0 THEN tree
    ELSE Backpropagate(Update(tree, n, terminalState), tree[n].parentNode, terminalState)

(***************************************************************************)
(* One iteration of the loop of ISMCTS / ISMCTS_Split.                      *)
(***************************************************************************)
\* Select: while state.GetMoves() != [] and node.GetUntriedMoves(state.GetMoves()) == []
RECURSIVE Select(_, _, _)
Select(tree, n, st) ==
    IF GetMoves(st) # {} /\ GetUntriedMoves(tree, n, GetMoves(st)) = {}
    THEN UNION {UNION {Select(u.tree, u.s, t) : t \in DoMove(st, u.tree[u.s].move)} :
                    u \in UCBSelectChild(tree, n, GetMoves(st))}
    ELSE {[tree |-> tree, node |-> n, state |-> st]}

\* Expand: m = random.choice(untriedMoves); state.DoMove(m); node = node.AddChild(m, player)
Expand(tree, n, st) ==
    LET untriedMoves == GetUntriedMoves(tree, n, GetMoves(st)) IN
    IF untriedMoves # {}
    THEN UNION {{[tree |-> AddChild(tree, n, m, st.playerToMove), node |-> Len(tree) + 1, state |-> t] :
                    t \in DoMove(st, m)} : m \in untriedMoves}
    ELSE {[tree |-> tree, node |-> n, state |-> st]}

\* Simulate: while state.GetMoves() != []: state.DoMove(random.choice(state.GetMoves()))
\* The playout is not unfolded.  Backpropagation reads only knockedOut of the
\* state it ends in, and DoMove never clears a knockedOut flag: the playout
\* ends with any set of knocked-out players that contains the present one.
Simulate(st) ==
    IF GetMoves(st) = {} THEN {st}
    ELSE {[st EXCEPT !.knockedOut = ko] :
            ko \in {k \in [DOMAIN st.knockedOut -> BOOLEAN] :
                        \A p \in DOMAIN st.knockedOut :
                            IF p \in Players(st) THEN st.knockedOut[p] => k[p]
                            ELSE k[p] = st.knockedOut[p]}}

\* i < itermax * 0.7: the product is the double nearest to the real number,
\* which is an integer only when 7 itermax / 10 is one, so the comparison
\* with the integer i comes out as 10 i < 7 itermax
SelfDeterminizes(i, imax) == 10 * i < 7 * imax

\* Determinize: ISMCTS always randomizes for the player to move; ISMCTS_Split
\* self-determinizes while i < itermax * 0.7
Determinize(rootstate, split, i, imax) ==
    IF split /\ SelfDeterminizes(i, imax)
    THEN CloneAndSelfDeterminize(rootstate)
    ELSE CloneAndRandomize(rootstate, rootstate.playerToMove)

\* Select, Expand, Simulate and Backpropagate on the determinization d: the
\* (rootstate, tree) pairs they can leave
SearchFrom(d, tree) ==
    UNION {UNION {{[self |-> d.self, tree |-> Backpropagate(e.tree, e.node, t)] :
                      t \in Simulate(e.state)} :
               e \in Expand(sel.tree, sel.node, sel.state)} :
        sel \in Select(tree, 1, d.st)}

\* the (rootstate, tree) pairs one iteration can leave
Iteration(rootstate, tree, split, i, imax) ==
    UNION {SearchFrom(d, tree) : d \in Determinize(rootstate, split, i, imax)}

\* max(rootnode.childNodes, key=lambda c: c.visits): the first child with the
\* most visits
MostVisited(tree) ==
    LET ch == ChildNodes(tree, 1) IN
    ch[CHOOSE j \in 1..Len(ch) :
          /\ \A l \in 1..Len(ch) : tree[ch[l]].visits <= tree[ch[j]].visits
          /\ \A l \in 1..(j - 1) : tree[ch[l]].visits < tree[ch[j]].visits]

(***************************************************************************)
(* The game in play: the fields of the CoupState the driver holds, and the  *)
(* position of the driver.                                                  *)
(***************************************************************************)
VARIABLES playerToMove, playerHands, coins, revealedCards, knockedOut,
          currentAction, currentActionPlayer, currentActionTarget,
          currentBlock, currentBlockPlayer, challenger,
          challengingPhase, revealingInfluence, choosingTarget, ambassadorCards,
          err,
          budget,       \* number of moves the driver will still play
          pc,           \* "play": in the game loop; otherwise what the driver called last
          rootBefore,   \* <<the state as it was when the driver made the call>>
          state,        \* <<the clone a determinizer returned>>
          observer,     \* the player the clone was randomized for
          cloneMoves,   \* number of moves made on the clone since it was returned
          split,        \* the search running is ISMCTS_Split
          itermax, iter, rootnode,
          ret,          \* <<the move the search returned>>
          raised        \* the exception that escaped the search

gameVars == <<playerToMove, playerHands, coins, revealedCards, knockedOut,
              currentAction, currentActionPlayer, currentActionTarget,
              currentBlock, currentBlockPlayer, challenger,
              challengingPhase, revealingInfluence, choosingTarget, ambassadorCards,
              err>>

searchVars == <<split, itermax, iter, rootnode, ret, raised>>

cloneVars == <<state, observer, cloneMoves>>

vars == <<gameVars, budget, pc, rootBefore, cloneVars, searchVars>>

\* the driver's state as an object
Self ==
    [numberOfPlayers |-> NumPlayers + 1,
     playerToMove |-> playerToMove, playerHands |-> playerHands, coins |-> coins,
     revealedCards |-> revealedCards, knockedOut |-> knockedOut,
     currentAction |-> currentAction, currentActionPlayer |-> currentActionPlayer,
     currentActionTarget |-> currentActionTarget,
     currentBlock |-> currentBlock, currentBlockPlayer |-> currentBlockPlayer,
     challenger |-> challenger,
     challengingPhase |-> challengingPhase, revealingInfluence |-> revealingInfluence,
     choosingTarget |-> choosingTarget, ambassadorCards |-> ambassadorCards,
     err |-> err]

\* the driver's state becomes t
Become(t) ==
    /\ playerToMove' = t.playerToMove
    /\ playerHands' = t.playerHands
    /\ coins' = t.coins
    /\ revealedCards' = t.revealedCards
    /\ knockedOut' = t.knockedOut
    /\ currentAction' = t.currentAction
    /\ currentActionPlayer' = t.currentActionPlayer
    /\ currentActionTarget' = t.currentActionTarget
    /\ currentBlock' = t.currentBlock
    /\ currentBlockPlayer' = t.currentBlockPlayer
    /\ challenger' = t.challenger
    /\ challengingPhase' = t.challengingPhase
    /\ revealingInfluence' = t.revealingInfluence
    /\ choosingTarget' = t.choosingTarget
    /\ ambassadorCards' = t.ambassadorCards
    /\ err' = t.err

(***************************************************************************)
(* CoupState(n): __init__, which ends with Deal().  The deck is shuffled    *)
(* and each player takes two cards off the top.  Player 0 is the            *)
(* environment player; __init__ also makes entries for a player n + 1, who  *)
(* never plays.  err is not a field of CoupState: it names the exception    *)
(* that escaped the last DoMove, "" if none.                                *)
(***************************************************************************)
RECURSIVE DealHands(_, _, _, _)
DealHands(h, deck, p, last) ==
    IF p > last THEN h
    ELSE DealHands([h EXCEPT ![p] = Slice(deck, 0, 2)], Slice(deck, 2, Len(deck)), p + 1, last)

\* Deal(): the hands it can leave
Deal(numberOfPlayers) ==
    {DealHands([p \in 0..numberOfPlayers |-> <<>>], deck, 1, numberOfPlayers - 1) :
        deck \in Shuffles(GetCardDeck)}

NewState(n, h) ==
    [numberOfPlayers |-> n + 1,
     playerToMove |-> 1,
     playerHands |-> h,
     coins |-> [p \in 1..n |-> 2],
     revealedCards |-> ZeroCount,
     knockedOut |-> [p \in 1..(n + 1) |-> FALSE],
     currentAction |-> NoneStr, currentActionPlayer |-> NoPlayer,
     currentActionTarget |-> NoPlayer,
     currentBlock |-> NoneStr, currentBlockPlayer |-> NoPlayer,
     challenger |-> NoPlayer,
     challengingPhase |-> FALSE, revealingInfluence |-> FALSE,
     choosingTarget |-> FALSE, ambassadorCards |-> <<>>,
     err |-> ""]

\* the driver has built state = CoupState(NumPlayers) and will play at most b moves
InitGame(b) ==
    /\ \E h \in Deal(NumPlayers + 1) :
        LET t == NewState(NumPlayers, h) IN
        /\ playerToMove = t.playerToMove
        /\ playerHands = t.playerHands
        /\ coins = t.coins
        /\ revealedCards = t.revealedCards
        /\ knockedOut = t.knockedOut
        /\ currentAction = t.currentAction
        /\ currentActionPlayer = t.currentActionPlayer
        /\ currentActionTarget = t.currentActionTarget
        /\ currentBlock = t.currentBlock
        /\ currentBlockPlayer = t.currentBlockPlayer
        /\ challenger = t.challenger
        /\ challengingPhase = t.challengingPhase
        /\ revealingInfluence = t.revealingInfluence
        /\ choosingTarget = t.choosingTarget
        /\ ambassadorCards = t.ambassadorCards
        /\ err = t.err
    /\ budget = b
    /\ pc = "play"
    /\ rootBefore = <<>>
    /\ state = <<>>
    /\ observer = NoPlayer
    /\ cloneMoves = 0
    /\ split = FALSE
    /\ itermax = 0
    /\ iter = 0
    /\ rootnode = <<>>
    /\ ret = <<>>
    /\ raised = ""

(***************************************************************************)
(* The driver's loop: while state.GetMoves() != []: state.DoMove(m) with m  *)
(* one of GetMoves().  One action per branch of DoMove.                     *)
(***************************************************************************)
Apply(m) ==
    /\ pc = "play"
    /\ budget > 0
    /\ budget' = budget - 1
    /\ \E t \in DoMove(Self, m) : Become(t)
    /\ UNCHANGED <<pc, rootBefore, cloneVars, searchVars>>

RevealInfluence ==
    /\ revealingInfluence
    /\ \E m \in GetMoves(Self) : Apply(m)

ChooseTarget ==
    /\ ~revealingInfluence /\ choosingTarget
    /\ \E m \in GetMoves(Self) : Apply(m)

ExchangeCards ==
    /\ ~revealingInfluence /\ ~choosingTarget /\ ambassadorCards # <<>>
    /\ \E m \in GetMoves(Self) : Apply(m)

OpenAction ==
    /\ ~revealingInfluence /\ ~choosingTarget /\ ambassadorCards = <<>>
    /\ currentAction = NoneStr
    /\ \E m \in GetMoves(Self) : Apply(m)

InFlight ==
    /\ ~revealingInfluence /\ ~choosingTarget /\ ambassadorCards = <<>>
    /\ currentAction # NoneStr

DeclareBlock ==
    /\ InFlight /\ challengingPhase
    /\ \E m \in GetMoves(Self) \ {Str("Allow"), Str("Challenge")} : Apply(m)

AllowMove ==
    /\ InFlight
    /\ Str("Allow") \in GetMoves(Self)
    /\ Apply(Str("Allow"))

ChallengeMove ==
    /\ InFlight
    /\ Str("Challenge") \in GetMoves(Self)
    /\ Apply(Str("Challenge"))

ResolveChallengeMove ==
    /\ InFlight
    /\ Str("Resolve Challenge") \in GetMoves(Self)
    /\ Apply(Str("Resolve Challenge"))

(***************************************************************************)
(* The determinizers, called on the driver's state.                         *)
(***************************************************************************)
\* st = state.CloneAndRandomize(p), any number of times for the same p
RandomizeFor ==
    /\ pc \in {"play", "randomized"}
    /\ \E p \in 0..NumPlayers :
          /\ pc = "randomized" => p = observer
          /\ observer' = p
          /\ \E c \in CloneAndRandomize(Self, p) :
                /\ Become(c.self)
                /\ state' = <<c.st>>
    /\ cloneMoves' = 0
    /\ rootBefore' = IF pc = "play" THEN <<Self>> ELSE rootBefore
    /\ pc' = "randomized"
    /\ UNCHANGED <<budget, searchVars>>

\* st.DoMove(m) with m one of st.GetMoves(); the moves made on clones count
\* as moves the driver plays
MoveOnClone ==
    /\ pc = "randomized"
    /\ budget > 0
    /\ budget' = budget - 1
    /\ cloneMoves' = cloneMoves + 1
    /\ \E m \in GetMoves(state[1]) : \E t \in DoMove(state[1], m) :
          /\ state' = <<t>>
          /\ Become(WriteThrough(Self, t))
    /\ UNCHANGED <<pc, rootBefore, observer, searchVars>>

\* st = state.CloneAndSelfDeterminize()
SelfDeterminize ==
    /\ pc = "play"
    /\ \E c \in CloneAndSelfDeterminize(Self) :
          /\ Become(c.self)
          /\ state' = <<c.st>>
    /\ rootBefore' = <<Self>>
    /\ pc' = "selfDeterminized"
    /\ UNCHANGED <<budget, observer, cloneMoves, searchVars>>

(***************************************************************************)
(* The searches, called on the driver's state as rootstate.                 *)
(***************************************************************************)
\* the largest itermax a search is called with
MaxIter == 1

\* m = ISMCTS(rootstate=state, itermax=n)
CallISMCTS ==
    /\ pc = "play"
    /\ pc' = "search"
    /\ split' = FALSE
    /\ \E n \in 1..MaxIter : itermax' = n
    /\ iter' = 0
    /\ rootnode' = RootNode
    /\ rootBefore' = <<Self>>
    /\ UNCHANGED <<gameVars, budget, cloneVars, ret, raised>>

\* m = ISMCTS_Split(rootstate=state, itermax=n)
CallISMCTS_Split ==
    /\ pc = "play"
    /\ pc' = "search"
    /\ split' = TRUE
    /\ \E n \in 1..MaxIter : itermax' = n
    /\ iter' = 0
    /\ rootnode' = RootNode
    /\ rootBefore' = <<Self>>
    /\ UNCHANGED <<gameVars, budget, cloneVars, ret, raised>>

\* for i in range(itermax): one pass through the body of the loop
Iterate ==
    /\ pc = "search"
    /\ iter < itermax
    /\ \E r \in Iteration(Self, rootnode, split, iter, itermax) :
          /\ Become(r.self)
          /\ rootnode' = r.tree
    /\ iter' = iter + 1
    /\ UNCHANGED <<budget, pc, rootBefore, cloneVars, split, itermax, ret, raised>>

\* return max(rootnode.childNodes, key=lambda c: c.visits).move
\* max() of an empty list raises ValueError
Return ==
    /\ pc = "search"
    /\ iter = itermax
    /\ IF ChildNodes(rootnode, 1) = <<>>
       THEN /\ raised' = "ValueError"
            /\ pc' = "raised"
            /\ ret' = ret
       ELSE /\ ret' = <<rootnode[MostVisited(rootnode)].move>>
            /\ pc' = "returned"
            /\ raised' = raised
    /\ UNCHANGED <<gameVars, budget, rootBefore, cloneVars, split, itermax, iter, rootnode>>

(***************************************************************************)
(* A caller that passes DoMove a move GetMoves() does not list.  The moves  *)
(* are the strings the game uses; the call is made where DoMove reads the   *)
(* move as a string (a card to reveal, a target, an action to open).        *)
(***************************************************************************)
MoveStrings ==
    ActionNames \cup {"Allow", "Challenge", "Resolve Challenge"}
                \cup {PlayerStr(i) : i \in 1..NumPlayers}

IllegalMoves(s) ==
    IF s.revealingInfluence \/ s.choosingTarget
       \/ (s.ambassadorCards = <<>> /\ s.currentAction = NoneStr)
    THEN {Str(x) : x \in MoveStrings} \ GetMoves(s)
    ELSE {}

\* state.DoMove(m) with m not in state.GetMoves()
IllegalMove ==
    /\ pc = "play"
    /\ \E m \in IllegalMoves(Self) :
          /\ \E t \in DoMove(Self, m) : Become(t)
          /\ ret' = <<m>>
    /\ rootBefore' = <<Self>>
    /\ pc' = "illegal"
    /\ UNCHANGED <<budget, cloneVars, split, itermax, iter, rootnode, raised>>

(***************************************************************************)
(* Specifications.  A behaviour is a game of legal moves, cut short after   *)
(* a bounded number of moves, and then one call on the state reached.       *)
(***************************************************************************)
\* the number of moves played before CloneAndSelfDeterminize is called
MaxMoves == 11

\* the number of moves played before a search is called or an illegal move made
MaxRootMoves == 9

\* the number of moves played where CloneAndRandomize is called, on the state
\* and on its clones together
MaxRandomizeMoves == 5

\* the game, and CloneAndSelfDeterminize
Next ==
    \/ RevealInfluence
    \/ ChooseTarget
    \/ ExchangeCards
    \/ OpenAction
    \/ DeclareBlock
    \/ AllowMove
    \/ ChallengeMove
    \/ ResolveChallengeMove
    \/ SelfDeterminize

Init == InitGame(MaxMoves)

Spec == Init /\ [][Next]_vars

\* the game, and CloneAndRandomize
NextRandomize ==
    \/ RevealInfluence
    \/ ChooseTarget
    \/ ExchangeCards
    \/ OpenAction
    \/ DeclareBlock
    \/ AllowMove
    \/ ChallengeMove
    \/ ResolveChallengeMove
    \/ RandomizeFor
    \/ MoveOnClone

InitRandomize == InitGame(MaxRandomizeMoves)

SpecRandomize == InitRandomize /\ [][NextRandomize]_vars

\* the game, and a search
NextSearch ==
    \/ RevealInfluence
    \/ ChooseTarget
    \/ ExchangeCards
    \/ OpenAction
    \/ DeclareBlock
    \/ AllowMove
    \/ ChallengeMove
    \/ ResolveChallengeMove
    \/ CallISMCTS
    \/ CallISMCTS_Split
    \/ Iterate
    \/ Return

InitRoot == InitGame(MaxRootMoves)

SpecSearch == InitRoot /\ [][NextSearch]_vars

\* the game, and an illegal move
NextIllegal ==
    \/ RevealInfluence
    \/ ChooseTarget
    \/ ExchangeCards
    \/ OpenAction
    \/ DeclareBlock
    \/ AllowMove
    \/ ChallengeMove
    \/ ResolveChallengeMove
    \/ IllegalMove

SpecIllegal == InitRoot /\ [][NextIllegal]_vars

(***************************************************************************)
(* Properties.                                                              *)
(***************************************************************************)
\* the number of copies of role r in the hands of the players of s
HeldCount(s, r) == HandCount(s, ZeroCount)[r]

\* s and t agree on every field of CoupState
SameFields(s, t) == [s EXCEPT !.err = ""] = [t EXCEPT !.err = ""]

\* s and t agree on every field but playerHands
SameButHands(s, t) ==
    SameFields([s EXCEPT !.playerHands = t.playerHands], t)

SameHandSizes(s, t) ==
    \A p \in DOMAIN s.playerHands : Len(s.playerHands[p]) = Len(t.playerHands[p])

\* C1: in every state reached from a new game by legal moves, for every role
\* the revealed count plus the copies held in the players' hands is at most 3
C1_RevealedPlusHeld ==
    pc = "play" => \A r \in Roles : revealedCards[r] + HeldCount(Self, r) <= DeckCopies

\* C2: DoMove called with a move that GetMoves() does not list fails with an
\* IllegalMove error and leaves every field of the state unchanged
C2_IllegalMoveRejected ==
    pc = "illegal" => err = "IllegalMove" /\ SameFields(Self, rootBefore[1])

\* C3: after CloneAndSelfDeterminize is called on a state, every field of
\* that state, its revealed pile included, is what it was before the call
C3_SelfDeterminizeKeepsRoot ==
    pc = "selfDeterminized" => Self = rootBefore[1]

\* C4: after any number of CloneAndRandomize calls on a state, and moves made
\* on the clones, every field of that state is what it was before the first call
C4_RandomizeKeepsRoot ==
    pc = "randomized" => Self = rootBefore[1]

\* C5: the clone CloneAndRandomize(p) returns for a real player p has the
\* hand of p, the coins, the revealed pile, the pending-action registers and
\* the phase flags of the state it was made from
C5_RandomizeFrame ==
    (pc = "randomized" /\ cloneMoves = 0 /\ observer \in 1..NumPlayers) =>
        /\ SameButHands(state[1], rootBefore[1])
        /\ state[1].playerHands[observer] = rootBefore[1].playerHands[observer]

\* C6: CloneAndRandomize(p) gives every other player a hand of the size it had,
\* and for every role the revealed count of the state plus the copies in the
\* hand of p plus the copies dealt to the others is at most 3
C6_RandomizeUnseenDeck ==
    (pc = "randomized" /\ cloneMoves = 0 /\ observer \in 1..NumPlayers) =>
        /\ SameHandSizes(state[1], rootBefore[1])
        /\ state[1].playerHands[observer] = rootBefore[1].playerHands[observer]
        /\ \A r \in Roles : rootBefore[1].revealedCards[r] + HeldCount(state[1], r) <= DeckCopies

\* C7: the clone CloneAndSelfDeterminize returns differs from the state only
\* in hands, keeps every hand size, and its hands together with its revealed
\* pile hold at most 3 copies of each role
C7_SelfDeterminizeClone ==
    pc = "selfDeterminized" =>
        /\ SameButHands(state[1], rootBefore[1])
        /\ SameHandSizes(state[1], rootBefore[1])
        /\ \A r \in Roles : state[1].revealedCards[r] + HeldCount(state[1], r) <= DeckCopies

\* C8: ISMCTS with itermax = 1 on a non-terminal root returns a move that is
\* one of the legal moves of the root
C8_OneIterationLegal ==
    (pc \in {"returned", "raised"} /\ ~split /\ itermax = 1 /\ GetMoves(rootBefore[1]) # {}) =>
        /\ pc = "returned"
        /\ ret[1] \in GetMoves(rootBefore[1])

\* C9: if the root has exactly one legal move m, ISMCTS and ISMCTS_Split
\* return m without error
C9_ForcedMove ==
    (pc \in {"returned", "raised"} /\ Cardinality(GetMoves(rootBefore[1])) = 1) =>
        /\ pc = "returned"
        /\ GetMoves(rootBefore[1]) = {ret[1]}

\* C10: ISMCTS called on a terminal state returns the "no move" sentinel; it
\* does not raise and does not return a move
C10_EmptySearch ==
    (pc \in {"returned", "raised"} /\ ~split /\ GetMoves(rootBefore[1]) = {}) =>
        /\ pc = "returned"
        /\ ret = <<NoMove>>

\* C4 witness: a clone was made and moved on, its revealed pile is no longer
\* that of the state it was made from, and that state has revealed cards
C4_Witness ==
    /\ pc = "randomized"
    /\ cloneMoves > 0
    /\ state[1].revealedCards # revealedCards
    /\ revealedCards # ZeroCount
    /\ Self = rootBefore[1]

(***************************************************************************)
(* The game alone: the driver plays legal moves and calls nothing else.     *)
(***************************************************************************)
NextGame ==
    \/ RevealInfluence
    \/ ChooseTarget
    \/ ExchangeCards
    \/ OpenAction
    \/ DeclareBlock
    \/ AllowMove
    \/ ChallengeMove
    \/ ResolveChallengeMove

\* the number of moves played in the specification of the game alone
MaxGameMoves == 10

InitPlay == InitGame(MaxGameMoves)

SpecGame == InitPlay /\ [][NextGame]_vars

\* the real players who are not knocked out
Alive(s) == {p \in Players(s) : ~s.knockedOut[p]}

\* C12: GetMoves() is empty exactly when one real player is not knocked out,
\* and then GetResult is 1 for that player, 0 for every other real player and
\* 0 for the environment player
C12_TerminalIffOneAlive ==
    /\ GetMoves(Self) = {} <=> Cardinality(Alive(Self)) = 1
    /\ GetMoves(Self) = {} =>
          /\ \A p \in Players(Self) : GetResult(Self, p) = IF p \in Alive(Self) THEN 1 ELSE 0
          /\ GetResult(Self, 0) = 0

\* C12 witness: the game is over, one player has lost both cards
C12_Witness ==
    /\ GetMoves(Self) = {}
    /\ Cardinality(Alive(Self)) = 1
    /\ budget < MaxGameMoves

\* C13: a real player is knocked out exactly when their hand is empty
C13_KnockedOutIffEmptyHand ==
    \A p \in Players(Self) : knockedOut[p] <=> playerHands[p] = <<>>

\* C13 witness: a player has revealed their last card and is knocked out,
\* and the other player holds two cards
C13_Witness ==
    /\ \E p \in Players(Self) : knockedOut[p] /\ playerHands[p] = <<>>
    /\ \E p \in Players(Self) : ~knockedOut[p] /\ Len(playerHands[p]) = 2

\* C14: in a state that is not terminal the player to move is the
\* environment player or a real player who is not knocked out, and a player
\* asked to reveal an influence holds a card
C14_MoverIsAlive ==
    /\ GetMoves(Self) # {} => playerToMove = 0 \/ playerToMove \in Alive(Self)
    /\ revealingInfluence => playerToMove \in Players(Self) /\ playerHands[playerToMove] # <<>>

\* C14 witness: the target of an assassination challenged it, lost a card
\* for that, and is asked to reveal the one card they still hold
C14_Witness ==
    /\ revealingInfluence
    /\ currentAction = "Assassin"
    /\ playerToMove = currentActionTarget
    /\ challenger = playerToMove
    /\ Len(playerHands[playerToMove]) = 1

\* C15: after a legal move exactly one of these holds: the state is terminal,
\* a real player is to move in a state that is not terminal, the environment
\* player is to move; playerToMove is one of 0..N
C15_OneOfThree ==
    budget < MaxGameMoves =>
        /\ playerToMove \in 0..NumPlayers
        /\ Cardinality({c \in {"terminal", "real", "environment"} :
               \/ c = "terminal" /\ GetMoves(Self) = {}
               \/ c = "real" /\ GetMoves(Self) # {} /\ playerToMove \in 1..NumPlayers
               \/ c = "environment" /\ playerToMove = 0}) = 1

\* C15 witness: a block was declared and the player who acted is to answer it
C15_Witness ==
    /\ budget < MaxGameMoves
    /\ currentBlock # NoneStr
    /\ playerToMove = currentActionPlayer
    /\ GetMoves(Self) # {}

C17_OnePhaseFlag ==
    /\ Cardinality({f \in {"c", "r", "t"} :
           \/ f = "c" /\ challengingPhase
           \/ f = "r" /\ revealingInfluence
           \/ f = "t" /\ choosingTarget}) <= 1
    /\ ambassadorCards # <<>> => ~challengingPhase /\ ~revealingInfluence /\ ~choosingTarget

\* C17 witness: a target was chosen and the target is to allow, block or
\* challenge
C17_Witness ==
    /\ challengingPhase
    /\ currentActionTarget = playerToMove

\* C18: every coin count is a nonnegative integer
C18_CoinsNonnegative ==
    \A p \in DOMAIN coins : coins[p] \in Nat

\* C18 witness: a Captain has stolen the one coin its target had
C18_Witness ==
    /\ currentAction = NoneStr
    /\ \E p, q \in Players(Self) : coins[p] = 0 /\ coins[q] = 5

\* C20: during an Ambassador exchange no two of the moves GetMoves() lists
\* hold the same roles with the same multiplicities in a different order
C20_HandsAsMultisets ==
    (ambassadorCards # <<>> /\ ~revealingInfluence /\ ~choosingTarget) =>
        \A m1, m2 \in GetMoves(Self) :
            (\A r \in Roles : CountIn(m1.v, r) = CountIn(m2.v, r)) => m1 = m2

(***************************************************************************)
(* GetNextPlayer(p) alone, on states with 2..MaxPlayers players of whom at  *)
(* least one is not knocked out.  state holds the CoupState the method is   *)
(* called on, observer its argument and ret the player it returns.          *)
(***************************************************************************)
MaxPlayers == 4

\* CoupState(n) after the players of ko have lost their cards
StateWith(n, ko) ==
    LET h == CHOOSE d \in Deal(n + 1) : TRUE
        t == NewState(n, h) IN
    [t EXCEPT !.knockedOut = [q \in 1..(n + 1) |-> q \in ko],
              !.playerHands = [q \in 0..(n + 1) |-> IF q \in ko THEN <<>> ELSE h[q]]]

InitNextPlayer ==
    /\ \E n \in 2..MaxPlayers : \E ko \in SUBSET (1..n) : \E p \in 1..n :
          /\ ko # 1..n
          /\ state = <<StateWith(n, ko)>>
          /\ observer = p
    /\ LET t == StateWith(NumPlayers, {}) IN
        /\ playerToMove = t.playerToMove
        /\ playerHands = t.playerHands
        /\ coins = t.coins
        /\ revealedCards = t.revealedCards
        /\ knockedOut = t.knockedOut
        /\ currentAction = t.currentAction
        /\ currentActionPlayer = t.currentActionPlayer
        /\ currentActionTarget = t.currentActionTarget
        /\ currentBlock = t.currentBlock
        /\ currentBlockPlayer = t.currentBlockPlayer
        /\ challenger = t.challenger
        /\ challengingPhase = t.challengingPhase
        /\ revealingInfluence = t.revealingInfluence
        /\ choosingTarget = t.choosingTarget
        /\ ambassadorCards = t.ambassadorCards
        /\ err = t.err
    /\ budget = 0
    /\ pc = "input"
    /\ rootBefore = <<>>
    /\ cloneMoves = 0
    /\ split = FALSE
    /\ itermax = 0
    /\ iter = 0
    /\ rootnode = <<>>
    /\ ret = <<>>
    /\ raised = ""

\* state.GetNextPlayer(p)
CallGetNextPlayer ==
    /\ pc = "input"
    /\ ret' = <<GetNextPlayer(state[1], observer)>>
    /\ pc' = "nextPlayer"
    /\ UNCHANGED <<gameVars, budget, rootBefore, cloneVars, split, itermax, iter, rootnode, raised>>

SpecNextPlayer == InitNextPlayer /\ [][CallGetNextPlayer]_vars

\* the number of seats from p to r going round the table 1..n (n from p to p)
Seats(n, p, r) == ((r - p - 1 + n) % n) + 1

\* C19: GetNextPlayer(p) returns one of 1..N, never 0: the first player after
\* p in the cyclic order who is not knocked out when a player other than p is
\* not knocked out, and p itself only when every other player is knocked out
C19_NextPlayer ==
    pc = "nextPlayer" =>
        LET s == state[1]
            p == observer
            q == ret[1]
            n == s.numberOfPlayers - 1
            others == {r \in Alive(s) : r # p}
        IN /\ q \in 1..n
           /\ IF others = {}
              THEN q = p
              ELSE /\ q \in others
                   /\ \A r \in others : Seats(n, p, q) <= Seats(n, p, r)

\* C19 witness: four players, player 2 knocked out, GetNextPlayer(1) is 3
C19_Witness ==
    /\ pc = "nextPlayer"
    /\ state[1].numberOfPlayers - 1 = 4
    /\ Alive(state[1]) = {1, 3, 4}
    /\ observer = 1
    /\ ret = <<3>>

(***************************************************************************)
(* Searches of more than one iteration, called early in the game: the tree  *)
(* the loop of ISMCTS / ISMCTS_Split builds.                                *)
(***************************************************************************)
\* the number of moves played before the search is called
MaxTreeMoves == 2

\* the largest itermax
MaxTreeIter == 2

\* m = ISMCTS(rootstate=state, itermax=n), after MaxTreeMoves moves
SearchISMCTS ==
    /\ pc = "play"
    /\ budget = 0
    /\ pc' = "search"
    /\ split' = FALSE
    /\ \E n \in 1..MaxTreeIter : itermax' = n
    /\ iter' = 0
    /\ rootnode' = RootNode
    /\ rootBefore' = <<Self>>
    /\ UNCHANGED <<gameVars, budget, cloneVars, ret, raised>>

\* m = ISMCTS_Split(rootstate=state, itermax=n)
SearchISMCTS_Split ==
    /\ pc = "play"
    /\ budget = 0
    /\ pc' = "search"
    /\ split' = TRUE
    /\ \E n \in 1..MaxTreeIter : itermax' = n
    /\ iter' = 0
    /\ rootnode' = RootNode
    /\ rootBefore' = <<Self>>
    /\ UNCHANGED <<gameVars, budget, cloneVars, ret, raised>>

\* the players open actions, choose targets, block, allow and challenge, and
\* the search is called on the state they have reached
NextTree ==
    \/ ChooseTarget
    \/ OpenAction
    \/ DeclareBlock
    \/ AllowMove
    \/ ChallengeMove
    \/ SearchISMCTS
    \/ SearchISMCTS_Split
    \/ Iterate
    \/ Return

InitTree == InitGame(MaxTreeMoves)

SpecTree == InitTree /\ [][NextTree]_vars

\* the visits of the nodes ch of the tree, added up
RECURSIVE SumVisits(_, _)
SumVisits(tree, ch) ==
    IF ch = <<>> THEN 0 ELSE tree[Head(ch)].visits + SumVisits(tree, Tail(ch))

\* C11: when the loop of a search called on a state that is not terminal has
\* run itermax times, the root has itermax visits, the visits of its children
\* add up to at most itermax, and every child of the root has at least one
C11_RootVisits ==
    (pc \in {"search", "returned", "raised"} /\ iter = itermax /\ GetMoves(rootBefore[1]) # {}) =>
        /\ rootnode[1].visits = itermax
        /\ SumVisits(rootnode, ChildNodes(rootnode, 1)) <= itermax
        /\ \A c \in SeqSet(ChildNodes(rootnode, 1)) : rootnode[c].visits >= 1

\* C11 witness: a search of two iterations has returned, the root has two
\* children and each was visited once
C11_Witness ==
    /\ pc = "returned"
    /\ itermax = 2
    /\ GetMoves(rootBefore[1]) # {}
    /\ Len(ChildNodes(rootnode, 1)) = 2
    /\ \A c \in SeqSet(ChildNodes(rootnode, 1)) : rootnode[c].visits = 1

(***************************************************************************)
(* GetMoves() alone, at the start of a turn and in the challenge phase of   *)
(* an action, on states of 2..MaxPlayers players with any revealed pile     *)
(* that leaves the first two players in the game.  state holds the          *)
(* CoupState, ret the set of the moves returned.                            *)
(***************************************************************************)
MaxCoins == 10

RECURSIVE Copies(_, _)
Copies(r, k) == IF k <= 0 THEN <<>> ELSE <<r>> \o Copies(r, k - 1)

RECURSIVE SumCounts(_, _)
SumCounts(rv, rs) == IF rs = <<>> THEN 0 ELSE rv[Head(rs)] + SumCounts(rv, Tail(rs))

\* GetCardDeck() without the cards of the revealed pile rv
DeckWithout(rv) ==
    Copies("Ambassador", DeckCopies - rv["Ambassador"]) \o Copies("Assassin", DeckCopies - rv["Assassin"])
    \o Copies("Captain", DeckCopies - rv["Captain"]) \o Copies("Duke", DeckCopies - rv["Duke"])
    \o Copies("Contessa", DeckCopies - rv["Contessa"])

\* the cards player q of n has lost when the revealed pile holds r cards: the
\* last players lost theirs first
CardsLost(n, q, r) ==
    LET x == r - 2 * (n - q) IN IF x <= 0 THEN 0 ELSE IF x >= 2 THEN 2 ELSE x

\* a CoupState of n players with revealed pile rv, where player 1 has c coins
\* and either is to open an action (act = NoneStr) or has declared act, which
\* player 2 is asked to allow, block or challenge
MenuState(n, rv, c, act) ==
    LET r == SumCounts(rv, RoleList)
        deck == DeckWithout(rv)
        t == NewState(n, [q \in 0..(n + 1) |->
                 IF q \in 1..n THEN Slice(deck, 2 * (q - 1), 2 * q - CardsLost(n, q, r)) ELSE <<>>])
        u == [t EXCEPT !.revealedCards = rv,
                       !.coins[1] = c,
                       !.knockedOut = [q \in 1..(n + 1) |-> q \in 1..n /\ CardsLost(n, q, r) = 2]]
    IN IF act = NoneStr THEN u
       ELSE [u EXCEPT !.currentAction = act,
                      !.currentActionPlayer = 1,
                      !.currentActionTarget = IF targetted[act] THEN 2 ELSE NoPlayer,
                      !.playerToMove = 2,
                      !.challengingPhase = TRUE]

\* the actions of the menu that open a challenge phase
PhaseActions == {"Foreign Aid", "Duke", "Captain", "Ambassador", "Assassin"}

InitMoves ==
    /\ \E n \in 2..MaxPlayers : \E rv \in [Roles -> 0..DeckCopies] : \E c \in 0..MaxCoins :
       \E act \in {NoneStr} \cup PhaseActions :
          /\ SumCounts(rv, RoleList) <= 2 * n - 3
          /\ act # NoneStr => c = 2
          /\ state = <<MenuState(n, rv, c, act)>>
    /\ LET t == StateWith(NumPlayers, {}) IN
        /\ playerToMove = t.playerToMove
        /\ playerHands = t.playerHands
        /\ coins = t.coins
        /\ revealedCards = t.revealedCards
        /\ knockedOut = t.knockedOut
        /\ currentAction = t.currentAction
        /\ currentActionPlayer = t.currentActionPlayer
        /\ currentActionTarget = t.currentActionTarget
        /\ currentBlock = t.currentBlock
        /\ currentBlockPlayer = t.currentBlockPlayer
        /\ challenger = t.challenger
        /\ challengingPhase = t.challengingPhase
        /\ revealingInfluence = t.revealingInfluence
        /\ choosingTarget = t.choosingTarget
        /\ ambassadorCards = t.ambassadorCards
        /\ err = t.err
    /\ budget = 0
    /\ pc = "input"
    /\ rootBefore = <<>>
    /\ observer = NoPlayer
    /\ cloneMoves = 0
    /\ split = FALSE
    /\ itermax = 0
    /\ iter = 0
    /\ rootnode = <<>>
    /\ ret = <<>>
    /\ raised = ""

\* state.GetMoves()
CallGetMoves ==
    /\ pc = "input"
    /\ ret' = <<GetMoves(state[1])>>
    /\ pc' = "moves"
    /\ UNCHANGED <<gameVars, budget, rootBefore, cloneVars, split, itermax, iter, rootnode, raised>>

SpecMoves == InitMoves /\ [][CallGetMoves]_vars

\* C21: at the start of a turn a player with 10 coins or more is offered Coup
\* alone; with fewer the player is offered Income, Foreign Aid, Duke, Captain
\* and Ambassador, Assassin with 3 coins or more and Coup with 7 or more,
\* without the roles of which 3 cards are revealed; in the challenge phase no
\* role of which 3 cards are revealed is offered as a block
C21_Menu ==
    pc = "moves" =>
        LET s == state[1]
            c == s.coins[s.playerToMove]
            rv == s.revealedCards
            Offered(o) == Str(o) \in ret[1]
        IN IF s.currentAction = NoneStr
           THEN /\ ret[1] \subseteq {Str(o) : o \in ActionNames}
                /\ \A o \in ActionNames :
                     Offered(o) <=>
                        \/ c >= 10 /\ o = "Coup"
                        \/ /\ c < 10
                           /\ \/ o \in {"Income", "Foreign Aid"}
                              \/ o \in {"Duke", "Captain", "Ambassador"} /\ rv[o] # 3
                              \/ o = "Assassin" /\ c >= 3 /\ rv[o] # 3
                              \/ o = "Coup" /\ c >= 7
           ELSE \A b \in Roles : rv[b] = 3 => ~Offered(b)

\* C21 witness: a player with 7 to 9 coins is to open an action, 3 Dukes are
\* revealed, and the menu was computed
C21_Witness ==
    /\ pc = "moves"
    /\ state[1].currentAction = NoneStr
    /\ state[1].coins[1] \in 7..9
    /\ state[1].revealedCards["Duke"] = 3
    /\ Str("Coup") \in ret[1]

\* C22: a move changes the revealed pile only when it reveals an influence,
\* and then the count of the role revealed goes up by exactly one; every other
\* move leaves every count as it was, and the counts stay within 0..3
C22_RevealedFrame ==
    [][/\ IF revealingInfluence
          THEN \E r \in Roles : revealedCards' = [revealedCards EXCEPT ![r] = @ + 1]
          ELSE revealedCards' = revealedCards
       /\ \A r \in Roles : revealedCards'[r] \in 0..DeckCopies]_vars

\* C23: when Resolve Challenge finds the claimed role of a challenged action
\* in the actor's hand, the actor's hand keeps its size, the challenger is to
\* move and is to reveal an influence; the challenger's reveal is followed by
\* the action, enacted once, unless the action is Coup: a Duke gives the actor
\* 3 coins, a Captain moves up to 2 coins from the target to the actor, an
\* Ambassador deals two cards to choose from, an Assassin asks the target to
\* reveal unless the target is knocked out
C23_TruthfulClaim ==
    [][LET a == currentActionPlayer
           tg == currentActionTarget
       IN /\ (/\ playerToMove = 0 /\ currentBlock = NoneStr /\ currentAction # NoneStr
              /\ InList(playerHands[a], currentAction))
             => /\ Len(playerHands'[a]) = Len(playerHands[a])
                /\ playerToMove' = challenger
                /\ revealingInfluence'
          /\ (/\ revealingInfluence /\ currentBlock = NoneStr /\ playerToMove = challenger
              /\ currentAction \notin {NoneStr, "Coup"})
             => CASE currentAction = "Duke" -> coins' = [coins EXCEPT ![a] = @ + 3]
                  [] currentAction = "Captain" ->
                        coins' = [coins EXCEPT ![a] = @ + MinOf(2, coins[tg]),
                                               ![tg] = @ - MinOf(2, coins[tg])]
                  [] currentAction = "Ambassador" ->
                        /\ coins' = coins
                        /\ Len(ambassadorCards') = 2
                        /\ playerToMove' = a
                  [] currentAction = "Assassin" ->
                        /\ coins' = coins
                        /\ IF knockedOut'[tg]
                           THEN ~revealingInfluence' /\ currentAction' = NoneStr
                           ELSE revealingInfluence' /\ playerToMove' = tg
                  [] OTHER -> FALSE]_vars

\* C23 witness: player 1 claimed Duke and held it, player 2 challenged, lost a
\* card for it, and player 1 has the 3 coins
C23_Witness ==
    /\ budget = MaxGameMoves - 4
    /\ currentAction = NoneStr
    /\ coins[1] = 5
    /\ Len(playerHands[1]) = 2
    /\ Len(playerHands[2]) = 1

\* the pending-action registers are cleared
RegistersCleared(s) ==
    /\ s.currentAction = NoneStr /\ s.currentActionPlayer = NoPlayer
    /\ s.currentActionTarget = NoPlayer
    /\ s.currentBlock = NoneStr /\ s.currentBlockPlayer = NoPlayer
    /\ s.challenger = NoPlayer

\* the state after the step
SelfNext == Self'

\* C24: when Resolve Challenge does not find the claimed role in the
\* claimant's hand, the claimant is to reveal an influence.  After the reveal
\* of a blocker the block is cleared and the action enacted (Foreign Aid gives
\* the actor 2 coins, Captain moves up to 2 coins, Assassin asks a live target
\* to reveal); after the reveal of the actor no coin moves, no card is dealt,
\* the registers are cleared and GetNextPlayer(actor) is to move
C24_Bluff ==
    [][LET a == currentActionPlayer
           tg == currentActionTarget
           claimant == IF currentBlock # NoneStr THEN currentBlockPlayer ELSE a
           claimed == IF currentBlock # NoneStr THEN currentBlock ELSE currentAction
       IN /\ (/\ playerToMove = 0 /\ currentAction # NoneStr
              /\ ~InList(playerHands[claimant], claimed))
             => /\ playerToMove' = claimant
                /\ revealingInfluence'
                /\ playerHands' = playerHands
          /\ (revealingInfluence /\ currentBlock # NoneStr /\ playerToMove = currentBlockPlayer)
             => /\ currentBlock' = NoneStr
                /\ currentBlockPlayer' = NoPlayer
                /\ CASE currentAction = "Foreign Aid" -> coins' = [coins EXCEPT ![a] = @ + 2]
                     [] currentAction = "Captain" ->
                           coins' = [coins EXCEPT ![a] = @ + MinOf(2, coins[tg]),
                                                  ![tg] = @ - MinOf(2, coins[tg])]
                     [] currentAction = "Assassin" ->
                           /\ coins' = coins
                           /\ IF knockedOut'[tg]
                              THEN ~revealingInfluence' /\ currentAction' = NoneStr
                              ELSE revealingInfluence' /\ playerToMove' = tg
                     [] OTHER -> FALSE
          /\ (/\ revealingInfluence /\ currentBlock = NoneStr /\ playerToMove = a
              /\ challenger # NoPlayer)
             => /\ coins' = coins
                /\ ambassadorCards' = <<>>
                /\ ~revealingInfluence' /\ ~challengingPhase' /\ ~choosingTarget'
                /\ RegistersCleared(SelfNext)
                /\ playerToMove' = GetNextPlayer(SelfNext, a)]_vars

\* C24 witness: player 1 claimed a role they did not hold, was challenged and
\* lost a card; no coin has moved and player 2 is to open an action
C24_Witness ==
    /\ budget = MaxGameMoves - 4
    /\ RegistersCleared(Self)
    /\ Len(playerHands[1]) = 1
    /\ Len(playerHands[2]) = 2
    /\ coins = [p \in 1..NumPlayers |-> 2]
    /\ playerToMove = 2

\* the player asked after p when the players of skip are passed over and the
\* round ends with last: the nearest after p, in the cyclic order of the
\* players, of last and the live players not in skip
NextAsked(s, p, skip, last) ==
    LET n == s.numberOfPlayers - 1
        cands == (Alive(s) \cup {last}) \ skip
    IN CHOOSE c \in cands : \A d \in cands : Seats(n, p, c) <= Seats(n, p, d)

C27_AssassinPaid ==
    [][/\ (currentAction = NoneStr /\ currentAction' = "Assassin")
          => coins' = [coins EXCEPT ![playerToMove] = @ - 3]
       /\ currentAction = "Assassin" => coins' = coins]_vars

\* C27 witness: both players took Income, player 1 declared Assassin, player 2
\* blocked, player 1 allowed the block: player 1 has no coin left
C27_Witness ==
    /\ budget = MaxGameMoves - 6
    /\ RegistersCleared(Self)
    /\ coins[1] = 0
    /\ coins[2] = 3
    /\ Len(playerHands[1]) = 2
    /\ Len(playerHands[2]) = 2

MaxSplitIter == 4

\* m = ISMCTS_Split(rootstate=state, itermax=n)
CallSplit ==
    /\ pc = "play"
    /\ pc' = "search"
    /\ split' = TRUE
    /\ \E n \in 1..MaxSplitIter : itermax' = n
    /\ iter' = 0
    /\ rootnode' = RootNode
    /\ rootBefore' = <<Self>>
    /\ UNCHANGED <<gameVars, budget, cloneVars, ret, raised>>

\* one pass through the body of the loop of ISMCTS_Split
IterateSplit ==
    /\ pc = "search"
    /\ iter < itermax
    /\ IF SelfDeterminizes(iter, itermax)
       THEN /\ \E d \in CloneAndSelfDeterminize(Self) : \E r \in SearchFrom(d, rootnode) :
                  /\ Become(r.self)
                  /\ rootnode' = r.tree
            /\ observer' = NoPlayer
       ELSE /\ \E d \in CloneAndRandomize(Self, playerToMove) : \E r \in SearchFrom(d, rootnode) :
                  /\ Become(r.self)
                  /\ rootnode' = r.tree
            /\ observer' = playerToMove
    /\ iter' = iter + 1
    /\ UNCHANGED <<budget, pc, rootBefore, state, cloneMoves, split, itermax, ret, raised>>

NextSplit ==
    \/ CallSplit
    \/ IterateSplit
    \/ Return

InitSplit == InitGame(0)

SpecSplit == InitSplit /\ [][NextSplit]_vars

\* C29: in ISMCTS_Split the iteration numbered iter (from 0) determinizes
\* with CloneAndSelfDeterminize if iter < floor(0.7 itermax), and with
\* CloneAndRandomize(rootstate.playerToMove) otherwise: exactly the first
\* floor(0.7 itermax) iterations self-determinize
C29_SplitFloor ==
    [][(pc = "search" /\ iter' = iter + 1) =>
          IF iter < (7 * itermax) \div 10
          THEN observer' = NoPlayer
          ELSE observer' = playerToMove]_vars

(***************************************************************************)
(* Searches of up to MaxNodeIter iterations called after MaxNodeMoves       *)
(* moves, where a player has few moves to choose from: the tree is expanded *)
(* fully at the root and UCBSelectChild picks among several children.       *)
(***************************************************************************)
\* the number of moves played before the search is called
MaxNodeMoves == 1

\* the largest itermax
MaxNodeIter == 3

\* m = ISMCTS(rootstate=state, itermax=n), after MaxNodeMoves moves
GrowISMCTS ==
    /\ pc = "play"
    /\ budget = 0
    /\ pc' = "search"
    /\ split' = FALSE
    /\ \E n \in 1..MaxNodeIter : itermax' = n
    /\ iter' = 0
    /\ rootnode' = RootNode
    /\ rootBefore' = <<Self>>
    /\ UNCHANGED <<gameVars, budget, cloneVars, ret, raised>>

\* m = ISMCTS_Split(rootstate=state, itermax=n)
GrowISMCTS_Split ==
    /\ pc = "play"
    /\ budget = 0
    /\ pc' = "search"
    /\ split' = TRUE
    /\ \E n \in 1..MaxNodeIter : itermax' = n
    /\ iter' = 0
    /\ rootnode' = RootNode
    /\ rootBefore' = <<Self>>
    /\ UNCHANGED <<gameVars, budget, cloneVars, ret, raised>>

NextNodes ==
    \/ OpenAction
    \/ GrowISMCTS
    \/ GrowISMCTS_Split
    \/ Iterate
    \/ Return

InitNodes == InitGame(MaxNodeMoves)

SpecNodes == InitNodes /\ [][NextNodes]_vars

\* UCBSelectChild(legalMoves) as the loop of the search would call it on the
\* determinization st from node n on: every call has a legal child to choose
\* from, and the score of every legal child is defined (visits > 0 under the
\* division, avails >= 1 under the logarithm)
RECURSIVE SelectDefined(_, _, _)
SelectDefined(tree, n, st) ==
    (GetMoves(st) # {} /\ GetUntriedMoves(tree, n, GetMoves(st)) = {}) =>
        LET legalChildren == {c \in SeqSet(ChildNodes(tree, n)) : tree[c].move \in GetMoves(st)} IN
        /\ legalChildren # {}
        /\ \A c \in legalChildren : tree[c].visits > 0 /\ tree[c].avails >= 1
        /\ \A u \in UCBSelectChild(tree, n, GetMoves(st)) :
              \A t \in DoMove(st, u.tree[u.s].move) : SelectDefined(u.tree, u.s, t)

\* C30: after every iteration of a search every node but the root has
\* avails >= visits >= 1 and 0 <= wins <= visits, and the root has wins = 0;
\* in the iteration that follows, every call of UCBSelectChild has a legal
\* child and computes its scores without dividing by zero or taking the
\* logarithm of a number below 1
C30_NodeCounters ==
    pc = "search" =>
        /\ rootnode[1].wins = 0
        /\ \A n \in 2..Len(rootnode) :
              /\ rootnode[n].avails >= rootnode[n].visits
              /\ rootnode[n].visits >= 1
              /\ rootnode[n].wins >= 0
              /\ rootnode[n].wins <= rootnode[n].visits
        /\ iter < itermax =>
              \A d \in Determinize(Self, split, iter, itermax) : SelectDefined(rootnode, 1, d.st)

\* C30 witness: after three iterations the root has two children and one of
\* them was selected by UCBSelectChild: both were available twice, one was
\* visited twice and the other once
C30_Witness ==
    /\ pc = "search"
    /\ iter = 3
    /\ Len(ChildNodes(rootnode, 1)) = 2
    /\ \A c \in SeqSet(ChildNodes(rootnode, 1)) : rootnode[c].avails = 2
    /\ \E c \in SeqSet(ChildNodes(rootnode, 1)) : rootnode[c].visits = 2
    /\ \E c \in SeqSet(ChildNodes(rootnode, 1)) : rootnode[c].visits = 1

====
